---- MODULE Spec2Model ----
(***************************************************************************)
(* Model of the two news-extraction services of google-news-scraper:       *)
(*   news_extractor.py   (newspaper3k, POST /extract)                      *)
(*   news_playwright.py  (Playwright stealth, POST /playwright)            *)
(*                                                                         *)
(* Text is a sequence of lexemes.  Every lexeme stands for one concrete    *)
(* string (Lexeme table below) and has that string's length, so the        *)
(* program's thresholds (50, 100, 30, 3, 2) keep their real values.        *)
(* clean_news_body is modelled by the rewrite rules of the source that can *)
(* match a text over these lexemes, in the source's order; the rules that  *)
(* cannot match any such text are the identity on this domain.             *)
(***************************************************************************)
EXTENDS Integers, Sequences, FiniteSets, TLC

\* ------------------------------------------------------------------ bounds
MaxTok == 4          \* longest text, in lexemes, drawn as an input

\* ------------------------------------------------------- program constants
MinCleanLen     == 50     \* clean_news_body: shorter input is returned as is
MinContentLen   == 100    \* the length gate of both services
MinLegalLen     == 50     \* is_legal_notice_page: shorter text is never legal
ExtMinLineLen   == 3      \* news_extractor line filter: len(line) < 3
PwMinLineLen    == 2      \* news_playwright line filter: len(line) < 2
PwNameLineLen   == 50     \* news_playwright reporter-name rules: len(line) < 50

\* ------------------------------------------------------------------ lexemes
\*  "F49"    48 times 'x' and a full stop            (a sentence, 49 chars)
\*  "F50"    49 times 'x' and a full stop            (a sentence, 50 chars)
\*  "SP"     one blank
\*  "NL"     one newline
\*  "BYLINE" (서울=연합뉴스) 홍길동 기자 =               (18 chars)
\*  "URL"    https://example.com/a                   (21 chars)
\*  "MARK"   법적고지                                 (4 Hangul syllables)
\*  "TERMS"  이용약관                                 (4 Hangul syllables)
\* and, in the texts that the stages of clean_news_body are run on:
\*  "BLOG"    URL 복사                                (6 chars, a blog marker)
\*  "SHARE"   공유하기 신고하기                        (9 chars, the share marker)
\*  "HOWEVER" 하지만                                  (3 Hangul syllables)
\*  "NAME"    홍길동                                  (3 Hangul syllables)
\*  "REL"     관련기사                                (4 Hangul syllables)
\*  "MOST"    많이 본 기사                             (7 chars)
\* and, in the <p> elements of a rendered page only:
\*  "COOKIES" We use Cookies to improve your experience.       (42 chars)
\*  "cookies" the same string in lower case, "COOKIES".lower() (42 chars)
\*  "LOGIN"   로그인 후 이용하실 수 있는 서비스입니다. 다시 로그인해 주세요. (36 chars)
\*  "SUB49"   구독, 46 times 'x' and a full stop                (49 chars)
Lexemes == {"F49", "F50", "SP", "NL", "BYLINE", "URL", "MARK", "TERMS"}

\* the lexemes of the texts that the stages are run on
StageLexemes == {"BLOG", "SHARE", "HOWEVER", "NAME", "REL", "MOST"}

AllLexemes == Lexemes \cup StageLexemes

TokLen(tok) ==
  CASE tok = "F49"    -> 49
    [] tok = "F50"    -> 50
    [] tok = "SP"     -> 1
    [] tok = "NL"     -> 1
    [] tok = "BYLINE" -> 18
    [] tok = "URL"    -> 21
    [] tok = "MARK"   -> 4
    [] tok = "TERMS"  -> 4
    [] tok = "BLOG"   -> 6
    [] tok = "SHARE"  -> 9
    [] tok = "HOWEVER" -> 3
    [] tok = "NAME"   -> 3
    [] tok = "REL"    -> 4
    [] tok = "MOST"   -> 7
    [] tok = "COOKIES" -> 42
    [] tok = "cookies" -> 42
    [] tok = "LOGIN"  -> 36
    [] tok = "SUB49"  -> 49

\* \s of the regular expressions, and str.strip()'s whitespace
Whitespace == {"SP", "NL"}

\* lexemes made of Hangul syllables only ([가-힣]+)
HangulOnly == {"MARK", "TERMS", "HOWEVER", "NAME", "REL"}

\* lexemes made of Hangul syllables and blanks, starting with a syllable
HangulSpaced == {"SHARE", "MOST"}

\* len(text)
RECURSIVE TextLen(_)
TextLen(t) == IF t = <<>> THEN 0 ELSE TokLen(Head(t)) + TextLen(Tail(t))

\* str.strip(): drop the whitespace at both ends
RECURSIVE LStrip(_)
LStrip(t) == IF t # <<>> /\ Head(t) \in Whitespace THEN LStrip(Tail(t)) ELSE t

RECURSIVE RStrip(_)
RStrip(t) ==
  IF t # <<>> /\ t[Len(t)] \in Whitespace THEN RStrip(SubSeq(t, 1, Len(t) - 1)) ELSE t

Strip(t) == LStrip(RStrip(t))

\* -------------------------------------------------- clean_news_body: rules
\* the rest of t from its first newline on
RECURSIVE DropToLineEnd(_)
DropToLineEnd(t) ==
  IF t = <<>> \/ Head(t) = "NL" THEN t ELSE DropToLineEnd(Tail(t))

\* a byline rule that is greedy to the end of the line: the sentence that
\* follows the byline on its line goes with it
RECURSIVE RemoveByline_to_line_end(_)
RemoveByline_to_line_end(t) ==
  IF t = <<>> THEN <<>>
  ELSE IF Head(t) = "BYLINE" THEN RemoveByline_to_line_end(DropToLineEnd(Tail(t)))
  ELSE <<Head(t)>> \o RemoveByline_to_line_end(Tail(t))

\* re.sub(r'\([\s가-힣]*=\s*연합뉴스\)\s*[가-힣\s]+기자\s*[=]*\s*', '', text):
\* the byline goes, and with it the whitespace that follows it
RECURSIVE RemoveByline(_)
RemoveByline(t) ==
  IF t = <<>> THEN <<>>
  ELSE IF Head(t) = "BYLINE" THEN RemoveByline(LStrip(Tail(t)))
  ELSE <<Head(t)>> \o RemoveByline(Tail(t))

\* length of the longest prefix of t made of lexemes of the set S
RECURSIVE RunLen(_, _)
RunLen(t, S) == IF t # <<>> /\ Head(t) \in S THEN 1 + RunLen(Tail(t), S) ELSE 0

\* index of the last newline among t[1..n], 0 when there is none
RECURSIVE LastNL(_, _)
LastNL(t, n) == IF n = 0 THEN 0 ELSE IF t[n] = "NL" THEN n ELSE LastNL(t, n - 1)

\* news_playwright: re.sub(r'^[\*\s]+$', '', text, flags=re.M).  At a line
\* start the longest whitespace run that ends at a line end is deleted.
RECURSIVE RemoveBlankRuns(_, _)
RemoveBlankRuns(t, lineStart) ==
  IF t = <<>> THEN <<>>
  ELSE IF lineStart /\ Head(t) \in Whitespace THEN
    LET r == RunLen(t, Whitespace)
        k == LastNL(t, r)
    IN IF r = Len(t) THEN <<>>
       ELSE IF k > 1 THEN SubSeq(t, k, r) \o RemoveBlankRuns(SubSeq(t, r + 1, Len(t)), FALSE)
       ELSE SubSeq(t, 1, r) \o RemoveBlankRuns(SubSeq(t, r + 1, Len(t)), t[r] = "NL")
  ELSE <<Head(t)>> \o RemoveBlankRuns(Tail(t), Head(t) = "NL")

\* news_extractor: re.sub(r'^([가-힣]\s*){3,}\n', '', text, flags=re.MULTILINE).
\* A line that starts with Hangul and holds only Hangul and whitespace is
\* deleted up to the last newline of that run (\s also matches newlines).
RECURSIVE RemoveHangulLines(_, _)
RemoveHangulLines(t, lineStart) ==
  IF t = <<>> THEN <<>>
  ELSE IF lineStart /\ Head(t) \in HangulOnly \cup HangulSpaced THEN
    LET r == RunLen(t, HangulOnly \cup HangulSpaced \cup Whitespace)
        k == LastNL(t, r)
    IN IF k > 0 THEN RemoveHangulLines(SubSeq(t, k + 1, Len(t)), TRUE)
       ELSE <<Head(t)>> \o RemoveHangulLines(Tail(t), FALSE)
  ELSE <<Head(t)>> \o RemoveHangulLines(Tail(t), Head(t) = "NL")

\* text.split('\n')
RECURSIVE SplitLines(_)
SplitLines(t) ==
  LET n == RunLen(t, AllLexemes \ {"NL"})
  IN IF n = Len(t) THEN <<t>>
     ELSE <<SubSeq(t, 1, n)>> \o SplitLines(SubSeq(t, n + 2, Len(t)))

\* '\n\n'.join(lines): the lines are joined with a blank line between them
RECURSIVE JoinLines_blank_line(_)
JoinLines_blank_line(ls) ==
  IF ls = <<>> THEN <<>>
  ELSE IF Len(ls) = 1 THEN ls[1]
  ELSE ls[1] \o <<"NL", "NL">> \o JoinLines_blank_line(Tail(ls))

\* '\n'.join(lines)
RECURSIVE JoinLines(_)
JoinLines(ls) ==
  IF ls = <<>> THEN <<>>
  ELSE IF Len(ls) = 1 THEN ls[1]
  ELSE ls[1] \o <<"NL">> \o JoinLines(Tail(ls))

\* [line.strip() for line in lines]
StripLines(ls) == [i \in 1..Len(ls) |-> Strip(ls[i])]

\* no word is excepted from the reporter-name rule
CommonWords_none == {}

\* the words of common_words that are lexemes of the model
CommonWords == {"HOWEVER"}

\* news_extractor line filter: "if not line or len(line) < 3: continue" and
\* re.match(r'^관련\s*기사$', line)
ExtKeepLine(line) ==
  /\ ~(line = <<>> \/ TextLen(line) < ExtMinLineLen)
  /\ line # <<"REL">>

\* news_playwright line filter: "if not line or len(line) < 2: continue" and
\* the reporter-name rule re.match(r'^[가-힣]{2,4}$', line) under len(line) < 50
PwKeepLine(line) ==
  /\ ~(line = <<>> \/ TextLen(line) < PwMinLineLen)
  /\ ~(/\ TextLen(line) < PwNameLineLen
       /\ Len(line) = 1 /\ line[1] \in HangulOnly
       /\ line[1] \notin CommonWords)

\* re.sub(r'https?:\/\/[^\s)]+', '', txt): the URL goes with everything up to
\* the next whitespace (no ')' is left in a text at this stage)
RECURSIVE RemoveUrls(_)
RemoveUrls(t) ==
  IF t = <<>> THEN <<>>
  ELSE IF Head(t) = "URL"
       THEN LET n == RunLen(t, AllLexemes \ Whitespace)
            IN RemoveUrls(SubSeq(t, n + 1, Len(t)))
  ELSE <<Head(t)>> \o RemoveUrls(Tail(t))

\* re.sub(r'\n{n,}', '\n\n', txt): n = 3 in news_extractor, 2 in news_playwright
RECURSIVE CollapseNewlines(_, _)
CollapseNewlines(t, n) ==
  IF t = <<>> THEN <<>>
  ELSE LET r == RunLen(t, {"NL"})
       IN IF r >= n THEN <<"NL", "NL">> \o CollapseNewlines(SubSeq(t, r + 1, Len(t)), n)
          ELSE IF r > 0 THEN SubSeq(t, 1, r) \o CollapseNewlines(SubSeq(t, r + 1, Len(t)), n)
          ELSE <<Head(t)>> \o CollapseNewlines(Tail(t), n)

\* re.sub(r' {2,}', ' ', txt)
RECURSIVE CollapseSpaces(_)
CollapseSpaces(t) ==
  IF t = <<>> THEN <<>>
  ELSE LET r == RunLen(t, {"SP"})
       IN IF r >= 2 THEN <<"SP">> \o CollapseSpaces(SubSeq(t, r + 1, Len(t)))
          ELSE <<Head(t)>> \o CollapseSpaces(Tail(t))

\* index, from 0, of the first character of the first lexeme tok of t, -1
\* when t holds none: re.search(...).start()
RECURSIVE FirstIndexOf(_, _)
FirstIndexOf(t, tok) ==
  IF t = <<>> THEN -1
  ELSE IF Head(t) = tok THEN 0
  ELSE LET r == FirstIndexOf(Tail(t), tok)
       IN IF r < 0 THEN -1 ELSE TokLen(Head(t)) + r

\* the rest of t after its first lexeme tok
RECURSIVE AfterFirst(_, _)
AfterFirst(t, tok) ==
  IF t = <<>> THEN <<>>
  ELSE IF Head(t) = tok THEN Tail(t)
  ELSE AfterFirst(Tail(t), tok)

BlogSharePercent == 30   \* share_index < len(raw_content) * 0.3

\* RemoveBlogHeader without the limit of 30% on the place of the share marker
RemoveBlogHeader_no_limit(t) ==
  LET is_blog     == \E i \in DOMAIN t : t[i] = "BLOG"
      share_index == FirstIndexOf(t, "SHARE")
  IN IF is_blog /\ share_index > 0
     THEN LStrip(AfterFirst(t, "SHARE"))
     ELSE t

\* the blog header: is_blog and has_share_pattern, share_index > 0 and
\* share_index < len(raw_content) * 0.3, then
\* re.sub(r'^[\s\S]*?공유하기\s*신고하기\s*', '', raw_content)
RemoveBlogHeader(t) ==
  LET is_blog     == \E i \in DOMAIN t : t[i] = "BLOG"
      share_index == FirstIndexOf(t, "SHARE")
  IN IF /\ is_blog
        /\ share_index > 0
        /\ share_index * 100 < TextLen(t) * BlogSharePercent
     THEN LStrip(AfterFirst(t, "SHARE"))
     ELSE t

\* the patterns of end_patterns that are lexemes, in the order of the list:
\* r'^많이\s*본\s*기사$' (the first) and r'^관련기사$' (the fourth)
end_patterns == <<"MOST", "REL">>

\* for pattern in end_patterns: for i, line in enumerate(lines): if
\* re.match(pattern, line): lines = lines[:i]; break ... break
RECURSIVE CutAtEndPattern(_, _)
CutAtEndPattern(lines, k) ==
  IF k > Len(end_patterns) THEN lines
  ELSE LET hits == {i \in DOMAIN lines : lines[i] = <<end_patterns[k]>>}
       IN IF hits # {}
          THEN SubSeq(lines, 1, (CHOOSE i \in hits : \A j \in hits : i <= j) - 1)
          ELSE CutAtEndPattern(lines, k + 1)

\* ------------------------------------------- clean_news_body: the pipelines
\* inputs of clean_news_body that are not strings: None, which is falsy, and
\* a bytes object, which is not
NoneInput  == <<"None">>
BytesInput == <<"bytes">>
NonStrings == {NoneInput, BytesInput}

\* news_extractor.clean_news_body
ext_clean_news_body(raw_content) ==
  IF raw_content = <<>> \/ raw_content = NoneInput THEN raw_content
  ELSE IF raw_content \in NonStrings THEN raw_content
  ELSE IF TextLen(raw_content) < MinCleanLen THEN raw_content
  ELSE LET s1    == RemoveBlogHeader(raw_content)                   \* STEP 1
           s2    == RemoveByline(s1)                                \* STEP 2
           s10   == RemoveHangulLines(s2, TRUE)                     \* STEP 10
           lines == StripLines(SplitLines(s10))                     \* STEP 11
           kept  == SelectSeq(lines, ExtKeepLine)
           s12   == Strip(CollapseSpaces(CollapseNewlines(
                      RemoveUrls(JoinLines(kept)), 3)))             \* STEP 12
       IN Strip(s12)                                                \* STEP 13

\* news_playwright.clean_news_body
pw_clean_news_body(raw_content) ==
  IF raw_content = <<>> \/ raw_content = NoneInput THEN raw_content
  ELSE IF raw_content \in NonStrings THEN raw_content
  ELSE IF TextLen(raw_content) < MinCleanLen THEN raw_content
  ELSE LET s2    == RemoveBlogHeader(raw_content)                    \* step 2
           s3    == RemoveBlankRuns(RemoveByline(s2), TRUE)          \* step 3
           lines == StripLines(SplitLines(s3))
           cut   == CutAtEndPattern(lines, 1)                        \* step 9
           kept  == SelectSeq(cut, PwKeepLine)                       \* step 10
           s11   == Strip(CollapseSpaces(CollapseNewlines(
                      RemoveUrls(JoinLines(kept)), 2)))              \* step 11
       IN Strip(s11)                                                 \* step 12

\* the texts of at most n lexemes
Texts(n) == UNION {[1..k -> Lexemes] : k \in 0..n}

\* the texts of at most n lexemes of the set S
TextsOver(S, n) == UNION {[1..k -> S] : k \in 0..n}

MaxStageTok == 5     \* longest text, in lexemes, that the stages are run on

\* the texts that the stages are run on: blog pages, pages with short Hangul
\* lines, pages with end markers, pages with bylines and bare URLs
StageTexts ==
  TextsOver({"F50", "SP", "BLOG", "SHARE"}, MaxStageTok)
    \cup TextsOver({"F50", "NL", "HOWEVER", "NAME"}, MaxStageTok)
    \cup TextsOver({"F50", "NL", "REL", "MOST"}, MaxStageTok)
    \cup TextsOver({"F50", "NL", "URL", "BYLINE"}, MaxStageTok)

\* ----------------------------------------------------- is_legal_notice_page
\* The keywords of is_legal_notice_page, by name:
\*   "legal_notice" 법적고지   "disclaimer" 면책조항   "terms" 이용약관
\*   "privacy" 개인정보처리방침
\*   "reporter" 기자   "coverage" 취재   "report" 보도   "article" 기사
\*   "news" 뉴스
\*   "channel_a_content" 채널A에서 제공하는 콘텐츠에 대하여
\*   "comply_with_law"   법령을 준수하기 위하여
\* and the keywords of strategy 4 of extract_with_playwright:
\*   "cookie_ko" 쿠키   "cookie"   "login_ko" 로그인   "login"
\*   "subscribe_ko" 구독   "subscribe"
\* Keywords(tok): the keywords that the lexeme's string contains
Keywords(tok) ==
  CASE tok = "MARK"   -> {"legal_notice"}
    [] tok = "TERMS"  -> {"terms"}
    [] tok = "BYLINE" -> {"reporter", "news"}
    [] tok = "REL"    -> {"article"}
    [] tok = "MOST"   -> {"article"}
    [] tok = "cookies" -> {"cookie"}
    [] tok = "LOGIN"  -> {"login_ko"}
    [] tok = "SUB49"  -> {"subscribe_ko"}
    [] OTHER          -> {}

\* "keyword in content"
Contains(content, keyword) == \E i \in 1..Len(content) : keyword \in Keywords(content[i])

\* content.startswith('법적고지')
StartsWithMarker(content) == content # <<>> /\ Head(content) = "MARK"

legal_keywords == {"legal_notice", "disclaimer", "terms", "privacy"}
news_keywords  == {"reporter", "coverage", "report", "article", "news"}

is_legal_notice_page(content) ==
  IF content = <<>> \/ TextLen(content) < MinLegalLen THEN FALSE
  ELSE LET content_stripped == Strip(content)
           legal_count == Cardinality({k \in legal_keywords : Contains(content_stripped, k)})
           has_news_content == \E k \in news_keywords : Contains(content_stripped, k)
       IN \/ StartsWithMarker(content_stripped)                        \* pattern 1
          \/ /\ Contains(content, "channel_a_content")                   \* pattern 2
             /\ Contains(content, "comply_with_law")
             /\ ~Contains(content, "reporter")
          \/ legal_count >= 2 /\ ~has_news_content                     \* pattern 3

\* ------------------------------------------ rendered DOM and body selection
\* the selectors of strategy 2, in the order of the source's list
ContainerSelectors ==
  <<".article-content", ".post-content", ".entry-content", ".content",
    ".article_body", ".article-body", ".post_content", ".story-body">>

\* A rendered page: the elements that exist (the first <article>, the first
\* match of each selector, the first <main>) and the <p> elements in document
\* order, each with its get_text(strip=True) and the element that holds it:
\* one of `has`, "body" (none of them) or "noise" (inside an element that the
\* two decompose() loops delete).
MinFragmentLen == 30     \* a paragraph is kept when len(text) > 30

BlankDom == [has |-> {}, paras |-> <<>>]

\* texts of the paragraphs under element e ("*": every <p> still in the soup)
ParaTextsIn(dom, e) ==
  LET live == SelectSeq(dom.paras, LAMBDA p : p.parent # "noise")
      sel  == SelectSeq(live, LAMBDA p : e = "*" \/ p.parent = e)
  IN [i \in 1..Len(sel) |-> sel[i].text]

\* '\n\n'.join(texts)
RECURSIVE JoinParas(_)
JoinParas(texts) ==
  IF texts = <<>> THEN <<>>
  ELSE IF Len(texts) = 1 THEN texts[1]
  ELSE texts[1] \o <<"NL", "NL">> \o JoinParas(Tail(texts))

LongEnough(text) == TextLen(text) > MinFragmentLen

\* the cookie / login / subscribe keywords of strategy 4
boilerplate_keywords ==
  {"cookie_ko", "cookie", "login_ko", "login", "subscribe_ko", "subscribe"}

\* text.lower()
ToLower(text) ==
  [i \in 1..Len(text) |-> IF text[i] = "COOKIES" THEN "cookies" ELSE text[i]]

\* the keywords are looked up in the text as it is, without lower()
HasBoilerplate_case_sensitive(text) ==
  \E keyword \in boilerplate_keywords : Contains(text, keyword)

\* any(keyword in text.lower() for keyword in [...])
HasBoilerplate(text) ==
  \E keyword \in boilerplate_keywords : Contains(ToLower(text), keyword)

\* the body of the paragraphs under e
BodyOf(dom, e) == JoinParas(SelectSeq(ParaTextsIn(dom, e), LongEnough))

\* strategy 2: the loop over the selectors, from selector number i on
RECURSIVE SelectByClass(_, _, _)
SelectByClass(dom, content, i) ==
  IF i > Len(ContainerSelectors) THEN content
  ELSE IF ContainerSelectors[i] \in dom.has
       THEN LET c == BodyOf(dom, ContainerSelectors[i])
            IN IF TextLen(c) > MinContentLen THEN c
               ELSE SelectByClass(dom, c, i + 1)
       ELSE SelectByClass(dom, content, i + 1)

\* the four strategies of extract_with_playwright
SelectBody(dom) ==
  LET c1 == IF "article" \in dom.has THEN BodyOf(dom, "article") ELSE <<>>
      c2 == IF TextLen(c1) < MinContentLen THEN SelectByClass(dom, c1, 1) ELSE c1
      c3 == IF TextLen(c2) < MinContentLen /\ "main" \in dom.has
            THEN BodyOf(dom, "main") ELSE c2
      c4 == IF TextLen(c3) < MinContentLen
            THEN JoinParas(SelectSeq(ParaTextsIn(dom, "*"),
                             LAMBDA t : LongEnough(t) /\ ~HasBoilerplate(t)))
            ELSE c3
  IN c4

\* ------------------------------------------------------------------- inputs
MaxParas == 2        \* most <p> elements of a rendered page drawn as an input

\* what article.text can be
ArticleTexts == Texts(MaxTok)

\* the get_text(strip=True) of the <p> elements drawn as inputs
ParaTexts ==
  { <<"URL">>,              \* 21 chars, a short fragment
    <<"F49">>, <<"F50">>,   \* 49 and 50 chars
    <<"MARK", "F49">> }     \* 53 chars, starts with the legal-notice marker

\* the elements drawn as inputs
DomElements == {"article", ".content", ".story-body", "main"}

\* the sequences of at most MaxParas <p> elements
ParaSeqs ==
  UNION {[1..n -> [text : ParaTexts, parent : DomElements \cup {"body", "noise"}]] :
           n \in 0..MaxParas}

\* d is a rendered page drawn as an input: every <p> is inside an element
\* that exists, in the body outside of them, or in a deleted element
IsDom(d) ==
  /\ d \in [has : SUBSET DomElements, paras : ParaSeqs]
  /\ \A i \in DOMAIN d.paras : d.paras[i].parent \in d.has \cup {"body", "noise"}

\* -------------------------------------------------------------------- state
VARIABLES
  pc,              \* the statement the request has reached
  endpoint,        \* "extract" (news_extractor) or "playwright" (news_playwright)
  body_valid,      \* the request body passes ExtractRequest validation
  reachable,       \* the URL answers
  download_state,  \* newspaper's Article: "none", "ok", "failed"
  article_text,    \* article.text
  content,         \* content_stripped
  cleaned,         \* cleaned_content / content_cleaned
  result,          \* the dict that extract_article / extract_with_playwright returns
  exc,             \* the exception in flight: "none", "error", "timeout"
  driver,          \* async_playwright(): "none", "running", "stopped"
  browser,         \* "none", "open", "closed" (browser.close() was awaited)
  context,         \* "none", "open", "closed" (context.close() was awaited)
  page,            \* "none", "open"
  stealth_applied, \* apply_stealth_async(page) was awaited
  route_installed, \* page.route(...) was awaited
  nav,             \* page.goto: "none", "ok", "timeout", "error"
  html,            \* the serialized DOM
  response,        \* the HTTP response
  first,           \* what the caller keeps of the /extract response it escalates from
  log,             \* the statements executed, in order
  impl,            \* which clean_news_body is applied ("extractor", "playwright")
  raw,             \* the text handed to clean_news_body
  pass1,           \* clean_news_body(raw)
  pass2,           \* clean_news_body(clean_news_body(raw))
  calls,           \* the frames of the extract_with_playwright calls in progress
  heap             \* the browsers, contexts and pages that Playwright has created

request_vars == <<endpoint, body_valid, reachable>>
static_vars  == <<download_state, article_text>>
local_vars   == <<content, cleaned>>
browser_vars == <<driver, browser, context, page, stealth_applied, route_installed, nav, html>>
clean_vars   == <<impl, raw, pass1, pass2>>
conc_vars    == <<calls, heap>>
vars == <<pc, request_vars, static_vars, local_vars, result, exc, browser_vars,
          response, first, log, clean_vars, conc_vars>>

\* values of variables that hold nothing yet
None       == "None"                    \* Python's None
NotRun     == <<"not run">>             \* a text that was never computed
NoResult   == [success |-> FALSE, content |-> NotRun, content_length |-> -1,
               extraction_method |-> "", error |-> ""]
NoResponse == [status |-> 0, body |-> NoResult]
NoFirst    == [success |-> FALSE, extraction_method |-> "", error |-> ""]
NoHtml     == [has |-> {"no html"}, paras |-> <<>>]
NoCalls    == <<>>
EmptyHeap  == <<>>

\* the error strings (the f-strings of the source add the length or str(e))
ErrLegalNotice  == "legal notice page detected; needs JavaScript rendering; Tavily API recommended"
ErrShortStatic  == "content too short; probably a JavaScript-rendered site; Tavily API recommended"
ErrExtract      == "extraction failed: <str(e)>"
ErrShortRender  == "content too short; Playwright could not extract enough content either"
ErrLoadTimeout  == "page load timeout (over 30 s, partial loading was attempted)"
ErrPlaywright   == "Playwright extraction failed: <str(e)>"
ErrValidation   == "request validation failed: <field: msg>"

Method(ep) == IF ep = "extract" THEN "newspaper3k" ELSE "playwright-stealth"

\* --------------------------------------------------------------------- Init
Init ==
  /\ pc = "idle"
  /\ endpoint = "none"
  /\ body_valid = TRUE
  /\ reachable \in BOOLEAN
  /\ download_state = "none"
  /\ article_text = NotRun
  /\ content = NotRun
  /\ cleaned = NotRun
  /\ result = NoResult
  /\ exc = "none"
  /\ driver = "none" /\ browser = "none" /\ context = "none" /\ page = "none"
  /\ stealth_applied = FALSE /\ route_installed = FALSE
  /\ nav = "none"
  /\ html = NoHtml
  /\ response = NoResponse
  /\ first = NoFirst
  /\ log = <<>>
  /\ impl = "none" /\ raw = NotRun /\ pass1 = NotRun /\ pass2 = NotRun
  /\ calls = NoCalls /\ heap = EmptyHeap

Step(name) == log' = Append(log, name)

\* ------------------------------------------------------ the caller, FastAPI
\* a caller posts {"url": ...} to one of the two endpoints
Post ==
  /\ pc = "idle"
  /\ \E ep \in {"extract", "playwright"}, v \in BOOLEAN :
       /\ endpoint' = ep
       /\ body_valid' = v
  /\ pc' = "validate"
  /\ Step("post")
  /\ UNCHANGED <<reachable, static_vars, local_vars, result, exc, browser_vars,
                 response, first, clean_vars, conc_vars>>

\* FastAPI validates the body against ExtractRequest (url: HttpUrl)
RequestValidation ==
  /\ pc = "validate"
  /\ pc' = IF ~body_valid THEN "validation_handler"
           ELSE IF endpoint = "extract" THEN "ea_download" ELSE "pw_start"
  /\ Step("validate")
  /\ UNCHANGED <<request_vars, static_vars, local_vars, result, exc, browser_vars,
                 response, first, clean_vars, conc_vars>>

\* validation_exception_handler without status_code=200: FastAPI's own 422
validation_exception_handler_422 ==
  /\ pc = "validation_handler"
  /\ response' = [status |-> 422,
                  body |-> [success |-> FALSE, content |-> <<>>, content_length |-> 0,
                            extraction_method |-> Method(endpoint),
                            error |-> ErrValidation]]
  /\ pc' = "responded"
  /\ Step("validation_exception_handler")
  /\ UNCHANGED <<request_vars, static_vars, local_vars, result, exc, browser_vars,
                 first, clean_vars, conc_vars>>

\* @app.exception_handler(RequestValidationError), the same in both services
validation_exception_handler ==
  /\ pc = "validation_handler"
  /\ response' = [status |-> 200,
                  body |-> [success |-> FALSE, content |-> <<>>, content_length |-> 0,
                            extraction_method |-> Method(endpoint),
                            error |-> ErrValidation]]
  /\ pc' = "responded"
  /\ Step("validation_exception_handler")
  /\ UNCHANGED <<request_vars, static_vars, local_vars, result, exc, browser_vars,
                 first, clean_vars, conc_vars>>

\* ------------------------------------------- news_extractor.extract_article
\* article.download(): newspaper records a failed download, or raises
extract_article_download ==
  /\ pc = "ea_download"
  /\ \E o \in (IF reachable THEN {"ok", "failed", "raise"} ELSE {"failed", "raise"}) :
       IF o = "raise"
       THEN /\ exc' = "error" /\ pc' = "ea_except"
            /\ UNCHANGED download_state
       ELSE /\ download_state' = o /\ pc' = "ea_parse"
            /\ UNCHANGED exc
  /\ Step("download")
  /\ UNCHANGED <<request_vars, article_text, local_vars, result, browser_vars,
                 response, first, clean_vars, conc_vars>>

\* article.parse(): raises when the download failed or the parser fails
extract_article_parse ==
  /\ pc = "ea_parse"
  /\ \/ /\ exc' = "error" /\ pc' = "ea_except"
        /\ UNCHANGED article_text
     \/ /\ download_state = "ok"
        /\ \E t \in ArticleTexts : article_text' = t
        /\ pc' = "ea_legal"
        /\ UNCHANGED exc
  /\ Step("parse")
  /\ UNCHANGED <<request_vars, download_state, local_vars, result, browser_vars,
                 response, first, clean_vars, conc_vars>>

\* extract_article_legal that records the verdict but does not return on it
extract_article_legal_no_return ==
  /\ pc = "ea_legal"
  /\ content' = Strip(article_text)
  /\ pc' = "ea_clean"
  /\ UNCHANGED result
  /\ Step("is_legal_notice_page")
  /\ UNCHANGED <<request_vars, static_vars, cleaned, exc, browser_vars,
                 response, first, clean_vars, conc_vars>>

\* content_stripped = (article.text or "").strip(); step 1: the legal-notice
\* check, before the text is cleaned
extract_article_legal ==
  /\ pc = "ea_legal"
  /\ content' = Strip(article_text)
  /\ IF is_legal_notice_page(content')
     THEN /\ result' = [success |-> FALSE, content |-> <<>>, content_length |-> 0,
                        extraction_method |-> "newspaper3k", error |-> ErrLegalNotice]
          /\ pc' = "ea_return"
     ELSE /\ pc' = "ea_clean"
          /\ UNCHANGED result
  /\ Step("is_legal_notice_page")
  /\ UNCHANGED <<request_vars, static_vars, cleaned, exc, browser_vars,
                 response, first, clean_vars, conc_vars>>

\* step 2: cleaned_content = clean_news_body(content_stripped)
extract_article_clean ==
  /\ pc = "ea_clean"
  /\ \/ /\ exc' = "error" /\ pc' = "ea_except"
        /\ UNCHANGED cleaned
     \/ /\ cleaned' = ext_clean_news_body(content)
        /\ pc' = "ea_gate"
        /\ UNCHANGED exc
  /\ Step("clean_news_body")
  /\ UNCHANGED <<request_vars, static_vars, content, result, browser_vars,
                 response, first, clean_vars, conc_vars>>

\* extract_article_gate whose success dict carries an empty error string
extract_article_gate_empty_error ==
  /\ pc = "ea_gate"
  /\ LET cleaned_content_length == TextLen(cleaned)
     IN result' =
          IF cleaned_content_length < MinContentLen
          THEN [success |-> FALSE, content |-> cleaned,
                content_length |-> cleaned_content_length,
                extraction_method |-> "newspaper3k", error |-> ErrShortStatic]
          ELSE [success |-> TRUE, content |-> cleaned,
                content_length |-> cleaned_content_length,
                extraction_method |-> "newspaper3k", error |-> ""]
  /\ pc' = "ea_return"
  /\ Step("length check")
  /\ UNCHANGED <<request_vars, static_vars, local_vars, exc, browser_vars,
                 response, first, clean_vars, conc_vars>>

\* steps 3 and 4: the length check on the cleaned text
extract_article_gate ==
  /\ pc = "ea_gate"
  /\ LET cleaned_content_length == TextLen(cleaned)
     IN result' =
          IF cleaned_content_length < MinContentLen
          THEN [success |-> FALSE, content |-> cleaned,
                content_length |-> cleaned_content_length,
                extraction_method |-> "newspaper3k", error |-> ErrShortStatic]
          ELSE [success |-> TRUE, content |-> cleaned,
                content_length |-> cleaned_content_length,
                extraction_method |-> "newspaper3k", error |-> None]
  /\ pc' = "ea_return"
  /\ Step("length check")
  /\ UNCHANGED <<request_vars, static_vars, local_vars, exc, browser_vars,
                 response, first, clean_vars, conc_vars>>

\* extract_article_except that reports str(e) alone, which may be empty
extract_article_except_bare_message ==
  /\ pc = "ea_except"
  /\ result' = [success |-> FALSE, content |-> <<>>, content_length |-> 0,
                extraction_method |-> "newspaper3k", error |-> ""]
  /\ pc' = "ea_return"
  /\ Step("except")
  /\ UNCHANGED <<request_vars, static_vars, local_vars, exc, browser_vars,
                 response, first, clean_vars, conc_vars>>

\* except Exception as e
extract_article_except ==
  /\ pc = "ea_except"
  /\ result' = [success |-> FALSE, content |-> <<>>, content_length |-> 0,
                extraction_method |-> "newspaper3k", error |-> ErrExtract]
  /\ pc' = "ea_return"
  /\ Step("except")
  /\ UNCHANGED <<request_vars, static_vars, local_vars, exc, browser_vars,
                 response, first, clean_vars, conc_vars>>

\* POST /extract: JSONResponse(status_code=200, content=result); the locals of
\* extract_article end with the call
extract ==
  /\ pc = "ea_return"
  /\ response' = [status |-> 200, body |-> result]
  /\ pc' = "responded"
  /\ download_state' = "none" /\ article_text' = NotRun
  /\ content' = NotRun /\ cleaned' = NotRun
  /\ result' = NoResult /\ exc' = "none"
  /\ Step("extract returns")
  /\ UNCHANGED <<request_vars, browser_vars, first, clean_vars, conc_vars>>

\* ------------------------------- news_playwright.extract_with_playwright
\* an await raises: the exception leaves the try block (the locals are dead)
\* through the exit of "async with async_playwright()" when it was entered
Raise(kind) ==
  /\ exc' = kind
  /\ pc' = IF driver = "running" THEN "pw_aexit" ELSE "pw_except"
  /\ html' = NoHtml /\ content' = NotRun /\ cleaned' = NotRun

\* async with async_playwright() as p
extract_with_playwright_start ==
  /\ pc = "pw_start"
  /\ \/ /\ driver' = "running" /\ pc' = "pw_launch"
        /\ UNCHANGED <<exc, html, local_vars>>
     \/ /\ Raise("error") /\ UNCHANGED driver
  /\ Step("async_playwright")
  /\ UNCHANGED <<request_vars, static_vars, result, browser, context, page,
                 stealth_applied, route_installed, nav, response, first, clean_vars, conc_vars>>

\* browser = await p.chromium.launch(...)
extract_with_playwright_launch ==
  /\ pc = "pw_launch"
  /\ \/ /\ browser' = "open" /\ pc' = "pw_new_context"
        /\ UNCHANGED <<exc, html, local_vars>>
     \/ /\ \E k \in {"error", "timeout"} : Raise(k)
        /\ UNCHANGED browser
  /\ Step("launch")
  /\ UNCHANGED <<request_vars, static_vars, result, driver, context, page,
                 stealth_applied, route_installed, nav, response, first, clean_vars, conc_vars>>

\* context = await browser.new_context(...)
extract_with_playwright_new_context ==
  /\ pc = "pw_new_context"
  /\ \/ /\ context' = "open" /\ pc' = "pw_new_page"
        /\ UNCHANGED <<exc, html, local_vars>>
     \/ /\ Raise("error") /\ UNCHANGED context
  /\ Step("new_context")
  /\ UNCHANGED <<request_vars, static_vars, result, driver, browser, page,
                 stealth_applied, route_installed, nav, response, first, clean_vars, conc_vars>>

\* page = await context.new_page()
extract_with_playwright_new_page ==
  /\ pc = "pw_new_page"
  /\ \/ /\ page' = "open" /\ pc' = "pw_stealth"
        /\ UNCHANGED <<exc, html, local_vars>>
     \/ /\ Raise("error") /\ UNCHANGED page
  /\ Step("new_page")
  /\ UNCHANGED <<request_vars, static_vars, result, driver, browser, context,
                 stealth_applied, route_installed, nav, response, first, clean_vars, conc_vars>>

\* await stealth.apply_stealth_async(page)
extract_with_playwright_stealth ==
  /\ pc = "pw_stealth"
  /\ \/ /\ stealth_applied' = TRUE /\ pc' = "pw_route"
        /\ UNCHANGED <<exc, html, local_vars>>
     \/ /\ Raise("error") /\ UNCHANGED stealth_applied
  /\ Step("apply_stealth_async")
  /\ UNCHANGED <<request_vars, static_vars, result, driver, browser, context, page,
                 route_installed, nav, response, first, clean_vars, conc_vars>>

\* await page.route("**/*.{png,jpg,...,css,woff,woff2,ttf}", abort)
extract_with_playwright_route ==
  /\ pc = "pw_route"
  /\ \/ /\ route_installed' = TRUE /\ pc' = "pw_goto"
        /\ UNCHANGED <<exc, html, local_vars>>
     \/ /\ Raise("error") /\ UNCHANGED route_installed
  /\ Step("route")
  /\ UNCHANGED <<request_vars, static_vars, result, driver, browser, context, page,
                 stealth_applied, nav, response, first, clean_vars, conc_vars>>

\* extract_with_playwright_goto that navigates again after a timeout, with no
\* limit on the number of attempts
extract_with_playwright_goto_retry ==
  /\ pc = "pw_goto"
  /\ \/ /\ reachable
        /\ nav' = "ok" /\ pc' = "pw_content1"
        /\ UNCHANGED <<exc, html, local_vars>>
        /\ Step("goto")
     \/ /\ nav' = (IF nav = "timeout" THEN "retry" ELSE "timeout")
        /\ pc' = "pw_goto"
        /\ UNCHANGED <<exc, html, local_vars, log>>
     \/ /\ nav' = "error" /\ Raise("error")
        /\ Step("goto")
  /\ UNCHANGED <<request_vars, static_vars, result, driver, browser, context, page,
                 stealth_applied, route_installed, response, first, clean_vars, conc_vars>>

\* extract_with_playwright_goto without the inner try: the timeout of
\* page.goto leaves the try block like any other exception
extract_with_playwright_goto_uncaught ==
  /\ pc = "pw_goto"
  /\ \/ /\ reachable
        /\ nav' = "ok" /\ pc' = "pw_content1"
        /\ UNCHANGED <<exc, html, local_vars>>
     \/ /\ nav' = "timeout" /\ Raise("timeout")
     \/ /\ nav' = "error" /\ Raise("error")
  /\ Step("goto")
  /\ UNCHANGED <<request_vars, static_vars, result, driver, browser, context, page,
                 stealth_applied, route_installed, response, first, clean_vars, conc_vars>>

\* await page.goto(url, wait_until='domcontentloaded', timeout=15000): a
\* PlaywrightTimeoutError is caught by the inner try, any other error is not
extract_with_playwright_goto ==
  /\ pc = "pw_goto"
  /\ \/ /\ reachable
        /\ nav' = "ok" /\ pc' = "pw_content1"
        /\ UNCHANGED <<exc, html, local_vars>>
     \/ /\ nav' = "timeout" /\ pc' = "pw_timeout_content"
        /\ UNCHANGED <<exc, html, local_vars>>
     \/ /\ nav' = "error" /\ Raise("error")
  /\ Step("goto")
  /\ UNCHANGED <<request_vars, static_vars, result, driver, browser, context, page,
                 stealth_applied, route_installed, response, first, clean_vars, conc_vars>>

\* html = await page.content(), the first time: this snapshot is overwritten
\* before it is read, so only the fact that it was taken is recorded
FirstSnapshot == [has |-> {"first snapshot"}, paras |-> <<>>]

extract_with_playwright_content1 ==
  /\ pc = "pw_content1"
  /\ \/ /\ html' = FirstSnapshot /\ pc' = "pw_wait"
        /\ UNCHANGED <<exc, local_vars>>
     \/ Raise("error")
  /\ Step("content")
  /\ UNCHANGED <<request_vars, static_vars, result, driver, browser, context, page,
                 stealth_applied, route_installed, nav, response, first, clean_vars, conc_vars>>

\* extract_with_playwright_wait without the wait: the final HTML is taken
\* right after the first one
extract_with_playwright_wait_skipped ==
  /\ pc = "pw_wait"
  /\ pc' = "pw_content2"
  /\ UNCHANGED <<exc, html, local_vars, log>>
  /\ UNCHANGED <<request_vars, static_vars, result, driver, browser, context, page,
                 stealth_applied, route_installed, nav, response, first, clean_vars, conc_vars>>

\* await page.wait_for_timeout(2000)
extract_with_playwright_wait ==
  /\ pc = "pw_wait"
  /\ \/ /\ pc' = "pw_content2"
        /\ UNCHANGED <<exc, html, local_vars>>
     \/ Raise("error")
  /\ Step("wait_for_timeout")
  /\ UNCHANGED <<request_vars, static_vars, result, driver, browser, context, page,
                 stealth_applied, route_installed, nav, response, first, clean_vars, conc_vars>>

\* html = await page.content(), the final HTML
extract_with_playwright_content2 ==
  /\ pc = "pw_content2"
  /\ \/ /\ IsDom(html')
        /\ pc' = "pw_context_close"
        /\ UNCHANGED <<exc, local_vars>>
     \/ Raise("error")
  /\ Step("content")
  /\ UNCHANGED <<request_vars, static_vars, result, driver, browser, context, page,
                 stealth_applied, route_installed, nav, response, first, clean_vars, conc_vars>>

\* except PlaywrightTimeoutError: html = await page.content(), whatever was
\* loaded so far (nothing when the URL does not answer)
extract_with_playwright_timeout ==
  /\ pc = "pw_timeout_content"
  /\ \/ /\ IF reachable THEN IsDom(html') ELSE html' = BlankDom
        /\ pc' = "pw_context_close"
        /\ UNCHANGED <<exc, local_vars>>
     \/ Raise("error")
  /\ Step("content after timeout")
  /\ UNCHANGED <<request_vars, static_vars, result, driver, browser, context, page,
                 stealth_applied, route_installed, nav, response, first, clean_vars, conc_vars>>

\* await context.close()
extract_with_playwright_context_close ==
  /\ pc = "pw_context_close"
  /\ \/ /\ context' = "closed" /\ pc' = "pw_browser_close"
        /\ UNCHANGED <<exc, html, local_vars>>
     \/ /\ Raise("error") /\ UNCHANGED context
  /\ Step("context.close")
  /\ UNCHANGED <<request_vars, static_vars, result, driver, browser, page,
                 stealth_applied, route_installed, nav, response, first, clean_vars, conc_vars>>

\* await browser.close()
extract_with_playwright_browser_close ==
  /\ pc = "pw_browser_close"
  /\ \/ /\ browser' = "closed" /\ pc' = "pw_select"
        /\ UNCHANGED <<exc, html, local_vars>>
     \/ /\ Raise("error") /\ UNCHANGED browser
  /\ Step("browser.close")
  /\ UNCHANGED <<request_vars, static_vars, result, driver, context, page,
                 stealth_applied, route_installed, nav, response, first, clean_vars, conc_vars>>

\* BeautifulSoup(html), the two decompose() loops, strategies 1 to 4,
\* content_stripped = content.strip(); html is not read after this statement
extract_with_playwright_select ==
  /\ pc = "pw_select"
  /\ \/ Raise("error")
     \/ /\ content' = Strip(SelectBody(html))
        /\ html' = NoHtml
        /\ pc' = "pw_gate"
        /\ UNCHANGED <<exc, cleaned>>
  /\ Step("select body")
  /\ UNCHANGED <<request_vars, static_vars, result, driver, browser, context, page,
                 stealth_applied, route_installed, nav, response, first, clean_vars, conc_vars>>

\* extract_with_playwright_gate that withholds the short text but reports its length
extract_with_playwright_gate_text_withheld ==
  /\ pc = "pw_gate"
  /\ LET content_length == TextLen(content)
     IN IF content_length < MinContentLen
        THEN /\ result' = [success |-> FALSE, content |-> <<>>,
                           content_length |-> content_length,
                           extraction_method |-> "playwright-stealth",
                           error |-> ErrShortRender]
             /\ pc' = "pw_aexit"
        ELSE /\ pc' = "pw_clean"
             /\ UNCHANGED result
  /\ Step("length check")
  /\ UNCHANGED <<request_vars, static_vars, local_vars, exc, browser_vars,
                 response, first, clean_vars, conc_vars>>

\* if content_length < 100: return the failure
extract_with_playwright_gate ==
  /\ pc = "pw_gate"
  /\ LET content_length == TextLen(content)
     IN IF content_length < MinContentLen
        THEN /\ result' = [success |-> FALSE, content |-> content,
                           content_length |-> content_length,
                           extraction_method |-> "playwright-stealth",
                           error |-> ErrShortRender]
             /\ pc' = "pw_aexit"
        ELSE /\ pc' = "pw_clean"
             /\ UNCHANGED result
  /\ Step("length check")
  /\ UNCHANGED <<request_vars, static_vars, local_vars, exc, browser_vars,
                 response, first, clean_vars, conc_vars>>

\* extract_with_playwright_clean with the method name of the other service
extract_with_playwright_clean_wrong_method ==
  /\ pc = "pw_clean"
  /\ \/ /\ Raise("error") /\ UNCHANGED result
     \/ /\ cleaned' = pw_clean_news_body(content)
        /\ result' = [success |-> TRUE, content |-> cleaned',
                      content_length |-> TextLen(cleaned'),
                      extraction_method |-> "newspaper3k", error |-> None]
        /\ pc' = "pw_aexit"
        /\ UNCHANGED <<exc, html, content>>
  /\ Step("clean_news_body")
  /\ UNCHANGED <<request_vars, static_vars, driver, browser, context, page,
                 stealth_applied, route_installed, nav, response, first, clean_vars, conc_vars>>

\* extract_with_playwright_clean that checks the length of the cleaned text again
extract_with_playwright_clean_gated ==
  /\ pc = "pw_clean"
  /\ \/ /\ Raise("error") /\ UNCHANGED result
     \/ /\ cleaned' = pw_clean_news_body(content)
        /\ result' = [success |-> TextLen(cleaned') >= MinContentLen, content |-> cleaned',
                      content_length |-> TextLen(cleaned'),
                      extraction_method |-> "playwright-stealth",
                      error |-> IF TextLen(cleaned') >= MinContentLen THEN None ELSE ErrShortRender]
        /\ pc' = "pw_aexit"
        /\ UNCHANGED <<exc, html, content>>
  /\ Step("clean_news_body")
  /\ UNCHANGED <<request_vars, static_vars, driver, browser, context, page,
                 stealth_applied, route_installed, nav, response, first, clean_vars, conc_vars>>

\* content_cleaned = clean_news_body(content_stripped); return the success
extract_with_playwright_clean ==
  /\ pc = "pw_clean"
  /\ \/ /\ Raise("error") /\ UNCHANGED result
     \/ /\ cleaned' = pw_clean_news_body(content)
        /\ result' = [success |-> TRUE, content |-> cleaned',
                      content_length |-> TextLen(cleaned'),
                      extraction_method |-> "playwright-stealth", error |-> None]
        /\ pc' = "pw_aexit"
        /\ UNCHANGED <<exc, html, content>>
  /\ Step("clean_news_body")
  /\ UNCHANGED <<request_vars, static_vars, driver, browser, context, page,
                 stealth_applied, route_installed, nav, response, first, clean_vars, conc_vars>>

\* leaving "async with async_playwright()": the driver is stopped
extract_with_playwright_aexit ==
  /\ pc = "pw_aexit"
  /\ driver' = "stopped"
  /\ pc' = IF exc = "none" THEN "pw_return" ELSE "pw_except"
  /\ Step("async_playwright exit")
  /\ UNCHANGED <<request_vars, static_vars, local_vars, result, exc, browser, context,
                 page, stealth_applied, route_installed, nav, html, response, first,
                 clean_vars, conc_vars>>

\* extract_with_playwright_except whose handlers return the success shape
extract_with_playwright_except_as_success ==
  /\ pc = "pw_except"
  /\ result' = [success |-> TRUE, content |-> <<>>, content_length |-> 0,
                extraction_method |-> "playwright-stealth", error |-> None]
  /\ pc' = "pw_return"
  /\ Step("except")
  /\ UNCHANGED <<request_vars, static_vars, local_vars, exc, browser_vars,
                 response, first, clean_vars, conc_vars>>

\* except PlaywrightTimeoutError / except Exception as e
extract_with_playwright_except ==
  /\ pc = "pw_except"
  /\ result' = [success |-> FALSE, content |-> <<>>, content_length |-> 0,
                extraction_method |-> "playwright-stealth",
                error |-> IF exc = "timeout" THEN ErrLoadTimeout ELSE ErrPlaywright]
  /\ pc' = "pw_return"
  /\ Step("except")
  /\ UNCHANGED <<request_vars, static_vars, local_vars, exc, browser_vars,
                 response, first, clean_vars, conc_vars>>

\* POST /playwright: JSONResponse(status_code=200, content=result); the locals
\* of extract_with_playwright end with the call
extract_playwright ==
  /\ pc = "pw_return"
  /\ response' = [status |-> 200, body |-> result]
  /\ pc' = "responded"
  /\ content' = NotRun /\ cleaned' = NotRun /\ html' = NoHtml
  /\ result' = NoResult /\ exc' = "none"
  /\ Step("extract_playwright returns")
  /\ UNCHANGED <<request_vars, static_vars, driver, browser, context, page,
                 stealth_applied, route_installed, nav, first, clean_vars, conc_vars>>

\* ---------------------------------------------------------------- the caller
\* The caller of the fast service escalates to the rendering service when
\* /extract answers success = false.
Escalate ==
  /\ pc = "responded"
  /\ endpoint = "extract"
  /\ ~response.body.success
  /\ first' = [success |-> response.body.success,
               extraction_method |-> response.body.extraction_method,
               error |-> response.body.error]
  /\ endpoint' = "playwright"
  /\ response' = NoResponse
  /\ pc' = "validate"
  /\ log' = <<"post">>
  /\ UNCHANGED <<body_valid, reachable, static_vars, local_vars, result, exc,
                 browser_vars, clean_vars, conc_vars>>

Next ==
  \/ Post
  \/ RequestValidation
  \/ validation_exception_handler
  \/ extract_article_download
  \/ extract_article_parse
  \/ extract_article_legal
  \/ extract_article_clean
  \/ extract_article_gate
  \/ extract_article_except
  \/ extract
  \/ extract_with_playwright_start
  \/ extract_with_playwright_launch
  \/ extract_with_playwright_new_context
  \/ extract_with_playwright_new_page
  \/ extract_with_playwright_stealth
  \/ extract_with_playwright_route
  \/ extract_with_playwright_goto
  \/ extract_with_playwright_content1
  \/ extract_with_playwright_wait
  \/ extract_with_playwright_content2
  \/ extract_with_playwright_timeout
  \/ extract_with_playwright_context_close
  \/ extract_with_playwright_browser_close
  \/ extract_with_playwright_select
  \/ extract_with_playwright_gate
  \/ extract_with_playwright_clean
  \/ extract_with_playwright_aexit
  \/ extract_with_playwright_except
  \/ extract_playwright
  \/ Escalate

Spec == Init /\ [][Next]_vars

\* ----------------------------------------- clean_news_body applied to a text
clean_news_body(i, t) ==
  IF i = "extractor" THEN ext_clean_news_body(t) ELSE pw_clean_news_body(t)

InitClean ==
  /\ pc = "clean"
  /\ impl \in {"extractor", "playwright"}
  /\ raw \in Texts(MaxTok)
  /\ pass1 = NotRun /\ pass2 = NotRun
  /\ endpoint = "none" /\ body_valid = TRUE /\ reachable = TRUE
  /\ download_state = "none" /\ article_text = NotRun
  /\ content = NotRun /\ cleaned = NotRun
  /\ result = NoResult /\ exc = "none"
  /\ driver = "none" /\ browser = "none" /\ context = "none" /\ page = "none"
  /\ stealth_applied = FALSE /\ route_installed = FALSE
  /\ nav = "none" /\ html = NoHtml
  /\ response = NoResponse /\ first = NoFirst /\ log = <<>>
  /\ calls = NoCalls /\ heap = EmptyHeap

\* the text is normalized
Normalize ==
  /\ pc = "clean"
  /\ pass1' = clean_news_body(impl, raw)
  /\ pc' = "cleaned once"
  /\ UNCHANGED <<request_vars, static_vars, local_vars, result, exc, browser_vars,
                 response, first, log, impl, raw, pass2, conc_vars>>

\* the normalized text is normalized again
Renormalize ==
  /\ pc = "cleaned once"
  /\ pass2' = clean_news_body(impl, pass1)
  /\ pc' = "cleaned twice"
  /\ UNCHANGED <<request_vars, static_vars, local_vars, result, exc, browser_vars,
                 response, first, log, impl, raw, pass1, conc_vars>>

NextClean == Normalize \/ Renormalize

SpecClean == InitClean /\ [][NextClean]_vars

\* ------------------------------------------------------------------ claims
\* extract_article or extract_with_playwright has built the dict it returns
Returned == pc \in {"ea_return", "pw_return"}

\* C1: every returned result with success = true has content_length equal to
\* len(content) and content_length of at least 100.
C1_AcceptedLengthAtLeast100 ==
  (Returned /\ result.success) =>
     /\ result.content_length = TextLen(result.content)
     /\ result.content_length >= 100

C4_GateOnNormalizedLength ==
  (Returned /\ exc = "none" /\ cleaned # NotRun) =>
     /\ TextLen(cleaned) = 99 => ~result.success
     /\ TextLen(cleaned) = 100 => result.success

\* C5: a raw extracted text that begins with the legal-notice marker is
\* rejected whatever its length, by both strategies.
C5_MarkerTextRejected ==
  (Returned /\ content # NotRun /\ StartsWithMarker(content)) => ~result.success

\* C6: in extract_article the legal-notice check is evaluated on the stripped,
\* not yet normalized text, before clean_news_body and before the length
\* check; when it fires the call returns at once with success = false,
\* content "" and content_length 0, and neither of the two later steps runs.
C6_LegalCheckShortCircuits ==
  /\ (pc \in {"ea_clean", "ea_gate", "ea_return"} /\ content # NotRun)
        => content = Strip(article_text)
  /\ pc \in {"ea_clean", "ea_gate"} => ~is_legal_notice_page(content)
  /\ endpoint = "extract" =>
        \A j \in DOMAIN log :
           log[j] \in {"clean_news_body", "length check"}
              => \E i \in 1..(j - 1) : log[i] = "is_legal_notice_page"
  /\ (pc = "ea_return" /\ content # NotRun /\ is_legal_notice_page(content)) =>
        /\ result = [success |-> FALSE, content |-> <<>>, content_length |-> 0,
                     extraction_method |-> "newspaper3k", error |-> ErrLegalNotice]
        /\ cleaned = NotRun
        /\ \A j \in DOMAIN log : log[j] \notin {"clean_news_body", "length check"}
        /\ log[Len(log)] = "is_legal_notice_page"

C6_Witness ==
  /\ pc = "ea_return" /\ content # NotRun
  /\ is_legal_notice_page(content)
  /\ TextLen(ext_clean_news_body(content)) >= MinContentLen
  /\ ~result.success /\ result.error = ErrLegalNotice

\* C7: every response of POST /extract and POST /playwright has status 200,
\* and every response that is not a success carries a non-empty error.
C7_AlwaysStatus200 ==
  response # NoResponse =>
     /\ response.status = 200
     /\ ~response.body.success => response.body.error \notin {"", None}

C7_Witness ==
  /\ pc = "responded" /\ ~body_valid
  /\ response.status = 200 /\ ~response.body.success
  /\ response.body.error = ErrValidation

\* C8: when the URL does not answer, the response has status 200 and carries
\* success = false, content "", content_length 0 and a non-empty error.
C8_UnreachableUrl ==
  (pc = "responded" /\ body_valid /\ ~reachable) =>
     /\ response.status = 200
     /\ ~response.body.success
     /\ response.body.content = <<>>
     /\ response.body.content_length = 0
     /\ response.body.error \notin {"", None}

C8_Witness ==
  /\ pc = "responded" /\ body_valid /\ ~reachable
  /\ first.error = ErrExtract
  /\ response.body.error = ErrPlaywright /\ nav = "error"

C10_Idempotent ==
  pc = "cleaned twice" => pass2 = pass1

\* what an error string says: the reason of the rejection ("본문이 너무
\* 짧습니다 (N자)", "법적고지/약관 페이지가 감지되었습니다")
ErrorStatesReason(error) == error \in {ErrLegalNotice, ErrShortStatic, ErrShortRender}

\* what an error string says: a stronger strategy to try next ("Tavily API
\* 사용을 권장합니다")
ErrorRecommendsEscalation(error) == error \in {ErrLegalNotice, ErrShortStatic}

\* the text that the length gate of the running strategy has rejected, NotRun
\* when the gate was not reached or has accepted
RejectedCandidate ==
  IF pc = "ea_return" /\ exc = "none" /\ cleaned # NotRun
        /\ TextLen(cleaned) < MinContentLen THEN cleaned
  ELSE IF pc = "pw_return" /\ exc = "none" /\ content # NotRun
        /\ TextLen(content) < MinContentLen THEN content
  ELSE NotRun

\* C11: a too-short rejection returns the rejected text as content with its
\* length as content_length, and an error that states the reason and
\* recommends a stronger strategy.
C11_RejectionRetainsCandidate ==
  RejectedCandidate # NotRun =>
     /\ ~result.success
     /\ result.content = RejectedCandidate
     /\ result.content_length = TextLen(RejectedCandidate)
     /\ ErrorStatesReason(result.error)
     /\ ErrorRecommendsEscalation(result.error)

\* C12: in every result of either service the error is a non-empty string
\* exactly when success is false, and None on success.
C12_ErrorIffFailure ==
  /\ Returned =>
        /\ result.success <=> result.error = None
        /\ ~result.success <=> result.error \notin {"", None}
  /\ response # NoResponse =>
        /\ response.body.success <=> response.body.error = None
        /\ ~response.body.success <=> response.body.error \notin {"", None}

C12_Witness ==
  /\ pc = "responded" /\ endpoint = "extract"
  /\ response.body.success /\ response.body.error = None
  /\ response.body.content_length >= MinContentLen

\* ------------------------------- concurrent calls of extract_with_playwright
\* The event loop runs extract_with_playwright as a coroutine for every
\* request to POST /playwright; a coroutine is suspended at its awaits only,
\* so there is one action for each await of a call, and the statements after
\* the last await (BeautifulSoup to return) belong to the step of that await.
MaxRequests == 2     \* the requests served at the same time

Requests == 1..MaxRequests

\* the URLs requested, and the document each of them renders to
Urls == {"long", "short"}

Rendered(url) ==
  IF url = "long"
  THEN [has |-> {"article"},
        paras |-> << [text |-> <<"F50">>, parent |-> "article"],
                     [text |-> <<"F50">>, parent |-> "article"] >>]
  ELSE [has |-> {}, paras |-> << [text |-> <<"F49">>, parent |-> "body"] >>]

\* The objects that Playwright creates are named after the call whose await
\* created them: object k is the browser (context, page) that launch
\* (new_context, new_page) returned to call k.  A handle is such a name, 0 is
\* no handle.  heap[k] is the state of the objects created for call k.
NoObjects == [browser |-> "none", context |-> "none", context_of |-> 0,
              page |-> "none", page_of |-> 0, doc |-> BlankDom]

\* the frame of a call: its program counter and its local variables; loaded
\* is the document that the call's own navigation has produced
NoFrame == [pc |-> "idle", url |-> "", browser |-> 0, context |-> 0, page |-> 0,
            html |-> NoHtml, loaded |-> NoHtml, exc |-> "none", result |-> NoResult]

\* what extract_with_playwright returns for the final HTML h
pw_result(h) ==
  LET content_stripped == Strip(SelectBody(h))
      content_length == TextLen(content_stripped)
      content_cleaned == pw_clean_news_body(content_stripped)
  IN IF content_length < MinContentLen
     THEN [success |-> FALSE, content |-> content_stripped,
           content_length |-> content_length,
           extraction_method |-> "playwright-stealth", error |-> ErrShortRender]
     ELSE [success |-> TRUE, content |-> content_cleaned,
           content_length |-> TextLen(content_cleaned),
           extraction_method |-> "playwright-stealth", error |-> None]

\* what the except handlers of extract_with_playwright return
pw_except_result(kind) ==
  [success |-> FALSE, content |-> <<>>, content_length |-> 0,
   extraction_method |-> "playwright-stealth",
   error |-> IF kind = "timeout" THEN ErrLoadTimeout ELSE ErrPlaywright]

InitConc ==
  /\ pc = "serving"
  /\ calls = [c \in Requests |-> NoFrame]
  /\ heap = [k \in Requests |-> NoObjects]
  /\ endpoint = "playwright" /\ body_valid = TRUE /\ reachable = TRUE
  /\ download_state = "none" /\ article_text = NotRun
  /\ content = NotRun /\ cleaned = NotRun
  /\ result = NoResult /\ exc = "none"
  /\ driver = "none" /\ browser = "none" /\ context = "none" /\ page = "none"
  /\ stealth_applied = FALSE /\ route_installed = FALSE
  /\ nav = "none" /\ html = NoHtml
  /\ response = NoResponse /\ first = NoFirst /\ log = <<>>
  /\ impl = "none" /\ raw = NotRun /\ pass1 = NotRun /\ pass2 = NotRun

\* the variables that the concurrent calls leave alone
single_vars == <<pc, request_vars, static_vars, local_vars, result, exc, browser_vars,
                 response, first, log, clean_vars>>

\* the await of call c raises: control leaves the try block for the except
\* handlers, the locals of the try block are dead
call_raise(c, kind) ==
  calls' = [calls EXCEPT ![c] = [NoFrame EXCEPT !.pc = "except", !.exc = kind,
                                                !.url = calls[c].url,
                                                !.loaded = calls[c].loaded]]

\* POST /playwright: extract_playwright awaits extract_with_playwright(url)
call_start(c) ==
  /\ calls[c].pc = "idle"
  /\ \E u \in Urls : calls' = [calls EXCEPT ![c].url = u, ![c].pc = "launch"]
  /\ UNCHANGED <<heap, single_vars>>

\* browser = await p.chromium.launch(...): a new browser process
call_launch(c) ==
  /\ calls[c].pc = "launch"
  /\ \/ /\ heap' = [heap EXCEPT ![c].browser = "open"]
        /\ calls' = [calls EXCEPT ![c].browser = c, ![c].pc = "new_context"]
     \/ /\ \E k \in {"error", "timeout"} : call_raise(c, k)
        /\ UNCHANGED heap
  /\ UNCHANGED single_vars

\* context = await browser.new_context(...): a new context of that browser
call_new_context(c) ==
  /\ calls[c].pc = "new_context"
  /\ \/ /\ heap[calls[c].browser].browser = "open"
        /\ heap' = [heap EXCEPT ![c].context = "open",
                                ![c].context_of = calls[c].browser]
        /\ calls' = [calls EXCEPT ![c].context = c, ![c].pc = "new_page"]
     \/ /\ call_raise(c, "error")
        /\ UNCHANGED heap
  /\ UNCHANGED single_vars

\* call_new_page that hands out a page that is already open, when there is
\* one (a page kept at module level and reused by the calls)
call_new_page_reused(c) ==
  /\ calls[c].pc = "new_page"
  /\ \/ /\ heap[calls[c].context].context = "open"
        /\ IF \E d \in Requests : heap[d].page = "open"
           THEN /\ \E d \in Requests :
                     /\ heap[d].page = "open"
                     /\ calls' = [calls EXCEPT ![c].page = d, ![c].pc = "stealth"]
                /\ UNCHANGED heap
           ELSE /\ heap' = [heap EXCEPT ![c].page = "open",
                                        ![c].page_of = calls[c].context,
                                        ![c].doc = BlankDom]
                /\ calls' = [calls EXCEPT ![c].page = c, ![c].pc = "stealth"]
     \/ /\ call_raise(c, "error")
        /\ UNCHANGED heap
  /\ UNCHANGED single_vars

\* page = await context.new_page(): a new page of that context, about:blank
call_new_page(c) ==
  /\ calls[c].pc = "new_page"
  /\ \/ /\ heap[calls[c].context].context = "open"
        /\ heap' = [heap EXCEPT ![c].page = "open",
                                ![c].page_of = calls[c].context,
                                ![c].doc = BlankDom]
        /\ calls' = [calls EXCEPT ![c].page = c, ![c].pc = "stealth"]
     \/ /\ call_raise(c, "error")
        /\ UNCHANGED heap
  /\ UNCHANGED single_vars

\* stealth = Stealth(); await stealth.apply_stealth_async(page)
call_stealth(c) ==
  /\ calls[c].pc = "stealth"
  /\ \/ calls' = [calls EXCEPT ![c].pc = "route"]
     \/ call_raise(c, "error")
  /\ UNCHANGED <<heap, single_vars>>

\* await page.route(...)
call_route(c) ==
  /\ calls[c].pc = "route"
  /\ \/ calls' = [calls EXCEPT ![c].pc = "goto"]
     \/ call_raise(c, "error")
  /\ UNCHANGED <<heap, single_vars>>

\* await page.goto(url, ...): the page shows the document of url; on a
\* timeout it shows what was loaded so far, and the inner handler goes on
call_goto(c) ==
  /\ calls[c].pc = "goto"
  /\ \/ /\ heap' = [heap EXCEPT ![calls[c].page].doc = Rendered(calls[c].url)]
        /\ calls' = [calls EXCEPT ![c].loaded = Rendered(calls[c].url),
                                  ![c].pc = "content1"]
     \/ /\ \E d \in {BlankDom, Rendered(calls[c].url)} :
             /\ heap' = [heap EXCEPT ![calls[c].page].doc = d]
             /\ calls' = [calls EXCEPT ![c].loaded = d, ![c].pc = "timeout_content"]
     \/ /\ call_raise(c, "error")
        /\ UNCHANGED heap
  /\ UNCHANGED single_vars

\* html = await page.content(): the document the page shows now
call_content(c) ==
  /\ calls[c].pc \in {"content1", "content2", "timeout_content"}
  /\ \/ calls' = [calls EXCEPT ![c].html = heap[calls[c].page].doc,
                               ![c].pc = IF calls[c].pc = "content1" THEN "wait"
                                         ELSE "context_close"]
     \/ call_raise(c, "error")
  /\ UNCHANGED <<heap, single_vars>>

\* await page.wait_for_timeout(2000)
call_wait(c) ==
  /\ calls[c].pc = "wait"
  /\ \/ calls' = [calls EXCEPT ![c].pc = "content2"]
     \/ call_raise(c, "error")
  /\ UNCHANGED <<heap, single_vars>>

\* await context.close(): the context and its pages are gone
call_context_close(c) ==
  /\ calls[c].pc = "context_close"
  /\ \/ /\ heap' = [k \in Requests |->
                     IF k = calls[c].context
                     THEN [heap[k] EXCEPT !.context = "closed", !.page = "closed",
                                          !.doc = BlankDom]
                     ELSE IF heap[k].page_of = calls[c].context
                     THEN [heap[k] EXCEPT !.page = "closed", !.doc = BlankDom]
                     ELSE heap[k]]
        /\ calls' = [calls EXCEPT ![c].pc = "browser_close"]
     \/ /\ call_raise(c, "error")
        /\ UNCHANGED heap
  /\ UNCHANGED single_vars

\* await browser.close(); then, with no await in between, BeautifulSoup, the
\* selection, the length check, clean_news_body and the return
call_browser_close(c) ==
  /\ calls[c].pc = "browser_close"
  /\ \/ /\ heap' = [heap EXCEPT ![calls[c].browser].browser = "closed"]
        /\ calls' = [calls EXCEPT ![c] =
                       [NoFrame EXCEPT !.pc = "returned", !.url = calls[c].url,
                                       !.loaded = calls[c].loaded,
                                       !.result = pw_result(calls[c].html)]]
     \/ /\ call_raise(c, "error")
        /\ UNCHANGED heap
  /\ UNCHANGED single_vars

\* except PlaywrightTimeoutError / except Exception as e
call_except(c) ==
  /\ calls[c].pc = "except"
  /\ calls' = [calls EXCEPT ![c].result = pw_except_result(calls[c].exc),
                            ![c].pc = "returned"]
  /\ UNCHANGED <<heap, single_vars>>

NextConc ==
  \E c \in Requests :
    \/ call_start(c)
    \/ call_launch(c)
    \/ call_new_context(c)
    \/ call_new_page(c)
    \/ call_stealth(c)
    \/ call_route(c)
    \/ call_goto(c)
    \/ call_content(c)
    \/ call_wait(c)
    \/ call_context_close(c)
    \/ call_browser_close(c)
    \/ call_except(c)

SpecConc == InitConc /\ [][NextConc]_vars

\* the handles that call c holds
Handles(c) ==
  {h \in {<<"browser", calls[c].browser>>, <<"context", calls[c].context>>,
          <<"page", calls[c].page>>} : h[2] # 0}

\* C13: concurrent requests share no mutable state: every call has its own
\* browser, context and page, no browser, context or page is held by two
\* calls, and under every interleaving a call returns what it would return
\* alone for the document its own navigation loaded (or for its own exception).
C13_RequestsIsolated ==
  /\ \A c, d \in Requests : c # d => Handles(c) \cap Handles(d) = {}
  /\ \A c \in Requests :
       /\ calls[c].context # 0 => heap[calls[c].context].context_of = calls[c].browser
       /\ calls[c].page # 0 => heap[calls[c].page].page_of = calls[c].context
       /\ calls[c].pc \in {"wait", "content2", "context_close"} =>
            calls[c].html = calls[c].loaded
       /\ calls[c].pc = "returned" =>
            calls[c].result = IF calls[c].exc # "none"
                              THEN pw_except_result(calls[c].exc)
                              ELSE pw_result(calls[c].loaded)

\* two calls in flight at once, each with its own open browser and its own
\* document: call 1 has its final HTML, call 2 is between its two snapshots
C13_Witness ==
  /\ calls[1].pc = "context_close" /\ calls[2].pc = "content2"
  /\ calls[1].url = "long" /\ calls[2].url = "short"
  /\ heap[1].browser = "open" /\ heap[2].browser = "open"
  /\ calls[1].html = Rendered("long") /\ calls[2].html = Rendered("short")

Serve ==
  \/ RequestValidation
  \/ validation_exception_handler
  \/ extract_article_download
  \/ extract_article_parse
  \/ extract_article_legal
  \/ extract_article_clean
  \/ extract_article_gate
  \/ extract_article_except
  \/ extract
  \/ extract_with_playwright_start
  \/ extract_with_playwright_launch
  \/ extract_with_playwright_new_context
  \/ extract_with_playwright_new_page
  \/ extract_with_playwright_stealth
  \/ extract_with_playwright_route
  \/ extract_with_playwright_goto
  \/ extract_with_playwright_content1
  \/ extract_with_playwright_wait
  \/ extract_with_playwright_content2
  \/ extract_with_playwright_timeout
  \/ extract_with_playwright_context_close
  \/ extract_with_playwright_browser_close
  \/ extract_with_playwright_select
  \/ extract_with_playwright_gate
  \/ extract_with_playwright_clean
  \/ extract_with_playwright_aexit
  \/ extract_with_playwright_except
  \/ extract_playwright

SpecLive == Init /\ [][Next]_vars /\ WF_vars(Serve)

\* the request has been answered with a success, a quality rejection or a
\* failure
Completed ==
  /\ pc = "responded"
  /\ response.status = 200
  /\ \/ response.body.success
     \/ response.body.error \in {ErrLegalNotice, ErrShortStatic, ErrShortRender}
     \/ response.body.error \in {ErrExtract, ErrLoadTimeout, ErrPlaywright, ErrValidation}

\* C15: every request that has started is eventually answered, with a
\* success, a quality rejection or a failure.
C15_EveryRequestCompletes == (pc = "validate") ~> Completed

\* a request that went through a navigation timeout has been answered
C15_Witness == Completed /\ nav = "timeout" /\ endpoint = "playwright"

\* the lexemes that are a sentence
Sentences == {"F49", "F50"}

\* t is a paragraph that starts with the byline, followed by a sentence
StartsWithBylineAndSentence(t) ==
  /\ Len(t) >= 2
  /\ Head(t) = "BYLINE"
  /\ LStrip(Tail(t)) # <<>>
  /\ Head(LStrip(Tail(t))) \in Sentences

\* C16: for a text that starts with the byline "(서울=연합뉴스) 홍길동 기자 ="
\* followed by a sentence, clean_news_body removes the whole byline and
\* returns the sentence that follows as it was: the output starts with that
\* sentence, holds no byline, and is the sentence alone when nothing else
\* follows it.
C16_BylineRemovedSentenceKept ==
  (pc # "clean" /\ StartsWithBylineAndSentence(raw)) =>
     /\ pass1 # <<>>
     /\ Head(pass1) = Head(LStrip(Tail(raw)))
     /\ \A i \in DOMAIN pass1 : pass1[i] # "BYLINE"
     /\ Len(LStrip(Tail(raw))) = 1 => pass1 = LStrip(Tail(raw))

C16_Witness ==
  /\ pc = "cleaned once"
  /\ raw = <<"BYLINE", "SP", "F50">>
  /\ pass1 = <<"F50">>

\* ------------------------------------------------- body selection, by steps
\* The four strategies of extract_with_playwright (lines 897-937) applied one
\* after the other to a parsed page: html is the soup, content the variable
\* `content` of the source, log the strategies that ran.

\* the get_text(strip=True) of the <p> elements of the pages selected from
SelectParaTexts ==
  { <<"URL">>,                \* 21 chars, a short fragment
    <<"F49">>,                \* 49 chars
    <<"F50", "SP", "F50">>,   \* 101 chars
    <<"COOKIES">>,            \* 42 chars, holds "Cookie"
    <<"LOGIN">>,              \* 36 chars, holds 로그인
    <<"SUB49">> }             \* 49 chars, holds 구독

SelectParaSeqs ==
  UNION {[1..n -> [text : SelectParaTexts, parent : DomElements \cup {"body", "noise"}]] :
           n \in 0..MaxParas}

SelectDoms ==
  {d \in [has : SUBSET DomElements, paras : SelectParaSeqs] :
     \A i \in DOMAIN d.paras : d.paras[i].parent \in d.has \cup {"body", "noise"}}

\* soup is parsed and cleared of the deleted elements; content = ""
InitSelect ==
  /\ pc = "strategy 1"
  /\ html \in SelectDoms
  /\ content = <<>>
  /\ log = <<>>
  /\ endpoint = "playwright" /\ body_valid = TRUE /\ reachable = TRUE
  /\ download_state = "none" /\ article_text = NotRun
  /\ cleaned = NotRun
  /\ result = NoResult /\ exc = "none"
  /\ driver = "stopped" /\ browser = "closed" /\ context = "closed" /\ page = "open"
  /\ stealth_applied = TRUE /\ route_installed = TRUE
  /\ nav = "ok"
  /\ response = NoResponse /\ first = NoFirst
  /\ impl = "none" /\ raw = NotRun /\ pass1 = NotRun /\ pass2 = NotRun
  /\ calls = NoCalls /\ heap = EmptyHeap

select_vars ==
  <<endpoint, body_valid, reachable, download_state, article_text, cleaned, result,
    exc, driver, browser, context, page, stealth_applied, route_installed, nav,
    html, response, first, impl, raw, pass1, pass2, calls, heap>>

\* strategy 1: article = soup.find('article'); if article: ...
select_article ==
  /\ pc = "strategy 1"
  /\ content' = IF "article" \in html.has THEN BodyOf(html, "article") ELSE content
  /\ Step("article")
  /\ pc' = "strategy 2"
  /\ UNCHANGED select_vars

\* strategy 2: if len(content) < 100: for selector in [...]: ...
select_class ==
  /\ pc = "strategy 2"
  /\ \/ /\ TextLen(content) < MinContentLen
        /\ content' = SelectByClass(html, content, 1)
        /\ Step("class")
     \/ /\ ~(TextLen(content) < MinContentLen)
        /\ UNCHANGED <<content, log>>
  /\ pc' = "strategy 3"
  /\ UNCHANGED select_vars

\* strategy 3 without its condition: <main> is looked up whatever the
\* length of the body selected so far
select_main_unguarded ==
  /\ pc = "strategy 3"
  /\ content' = IF "main" \in html.has THEN BodyOf(html, "main") ELSE content
  /\ Step("main")
  /\ pc' = "strategy 4"
  /\ UNCHANGED select_vars

\* strategy 3: if len(content) < 100: main = soup.find('main'); if main: ...
select_main ==
  /\ pc = "strategy 3"
  /\ \/ /\ TextLen(content) < MinContentLen
        /\ content' = IF "main" \in html.has THEN BodyOf(html, "main") ELSE content
        /\ Step("main")
     \/ /\ ~(TextLen(content) < MinContentLen)
        /\ UNCHANGED <<content, log>>
  /\ pc' = "strategy 4"
  /\ UNCHANGED select_vars

\* strategy 4: if len(content) < 100: paragraphs = soup.find_all('p') ...
select_all ==
  /\ pc = "strategy 4"
  /\ \/ /\ TextLen(content) < MinContentLen
        /\ content' = JoinParas(SelectSeq(ParaTextsIn(html, "*"),
                                  LAMBDA t : LongEnough(t) /\ ~HasBoilerplate(t)))
        /\ Step("all")
     \/ /\ ~(TextLen(content) < MinContentLen)
        /\ UNCHANGED <<content, log>>
  /\ pc' = "selected"
  /\ UNCHANGED select_vars

NextSelect == select_article \/ select_class \/ select_main \/ select_all

SpecSelect == InitSelect /\ [][NextSelect]_vars

\* the selectors of the list that match an element of the page, in list order
PresentSelectors(dom) == SelectSeq(ContainerSelectors, LAMBDA s : s \in dom.has)

\* `after` is what the selectors, tried in list order, leave of `before`: the
\* body of a matching selector that no matching selector with a body longer
\* than 100 characters precedes, and a body shorter than 100 characters only
\* from the last matching selector; `before` when no selector matches
FollowsListOrder(dom, before, after) ==
  LET present == PresentSelectors(dom)
  IN IF present = <<>> THEN after = before
     ELSE \E i \in 1..Len(present) :
            /\ after = BodyOf(dom, present[i])
            /\ \A j \in 1..(i - 1) : TextLen(BodyOf(dom, present[j])) <= MinContentLen
            /\ TextLen(after) < MinContentLen => i = Len(present)

\* the tiers in their priority order
TierOrder == <<"article", "class", "main", "all">>
TierNo(name) == CHOOSE k \in 1..Len(TierOrder) : TierOrder[k] = name

\* C17: body selection consults the tiers in the order <article>, the
\* container selectors in list order, <main>, all paragraphs; a tier after
\* the first is consulted only when the body selected so far is shorter than
\* 100 characters; once a tier has left a body of at least 100 characters no
\* later tier is consulted and the body is final; the steps end with the
\* body that SelectBody computes.
C17_TiersInOrderUntilSufficient ==
  [][ /\ log' # log =>
           /\ Len(log') = Len(log) + 1 /\ SubSeq(log', 1, Len(log)) = log
           /\ log # <<>> =>
                /\ TierNo(log'[Len(log')]) > TierNo(log[Len(log)])
                /\ TextLen(content) < MinContentLen
           /\ log'[Len(log')] = "article" =>
                content' = IF "article" \in html.has THEN BodyOf(html, "article") ELSE <<>>
           /\ log'[Len(log')] = "class" => FollowsListOrder(html, content, content')
           /\ log'[Len(log')] = "main" =>
                content' = IF "main" \in html.has THEN BodyOf(html, "main") ELSE content
      /\ log' = log => content' = content
      /\ (log # <<>> /\ TextLen(content) >= MinContentLen) => log' = log
      /\ pc' = "selected" => content' = SelectBody(html')
    ]_vars

\* <article> is too short, ".content" yields 101 characters: <main>, which
\* holds a paragraph of its own, is not consulted
C17_Witness ==
  /\ pc = "selected"
  /\ log = <<"article", "class">>
  /\ {"article", ".content", "main"} \subseteq html.has
  /\ BodyOf(html, "main") # <<>>
  /\ content = <<"F50", "SP", "F50">>

\* the part of t before its first blank-line separator '\n\n'
RECURSIVE UpToBlankLine(_)
UpToBlankLine(t) ==
  IF t = <<>> THEN <<>>
  ELSE IF Len(t) >= 2 /\ t[1] = "NL" /\ t[2] = "NL" THEN <<>>
  ELSE <<Head(t)>> \o UpToBlankLine(Tail(t))

\* content.split('\n\n'), the empty body holding no paragraph
RECURSIVE SplitParas(_)
SplitParas(t) ==
  IF t = <<>> THEN <<>>
  ELSE LET h == UpToBlankLine(t)
       IN IF Len(h) = Len(t) THEN <<h>>
          ELSE <<h>> \o SplitParas(SubSeq(t, Len(h) + 3, Len(t)))

\* a is b with some of its elements left out, the others in b's order
RECURSIVE IsSubSeq(_, _)
IsSubSeq(a, b) ==
  \/ a = <<>>
  \/ /\ b # <<>>
     /\ IF Head(a) = Head(b) THEN IsSubSeq(Tail(a), Tail(b)) ELSE IsSubSeq(a, Tail(b))

\* the elements a tier can take its paragraphs from ("*": the whole page)
TierElements(dom) == dom.has \cup {"*"}

StartsWithLegalMarker(text) == text # <<>> /\ Head(text) = "MARK"

ChannelATerms(text) ==
  /\ Contains(text, "channel_a_content")
  /\ Contains(text, "comply_with_law")
  /\ ~Contains(text, "reporter")

LegalWithoutNews(text) ==
  /\ Cardinality({k \in legal_keywords : Contains(text, k)}) >= 2
  /\ \A k \in news_keywords : ~Contains(text, k)

\* C19: is_legal_notice_page classifies the stripped, not yet normalized text
\* as a legal page exactly when it starts with the marker 법적고지, or holds
\* both Channel-A phrases and no 기자, or holds at least 2 of the 4 legal
\* keywords and none of the 5 news keywords; a text with a news keyword that
\* matches neither of the first two rules is never classified as legal.
C19_LegalExactlyWhenRules ==
  (endpoint = "extract" /\ log # <<>> /\ log[Len(log)] = "is_legal_notice_page") =>
     /\ (pc = "ea_return" /\ result.error = ErrLegalNotice)
          <=> (StartsWithLegalMarker(content) \/ ChannelATerms(content)
                 \/ LegalWithoutNews(content))
     /\ ( /\ \E k \in news_keywords : Contains(content, k)
          /\ ~StartsWithLegalMarker(content)
          /\ ~ChannelATerms(content) ) => pc = "ea_clean"

\* the position of the last statement `name` in the log, 0 when it never ran
LastStep(name) ==
  IF \E i \in DOMAIN log : log[i] = name
  THEN CHOOSE i \in DOMAIN log : log[i] = name /\ \A j \in DOMAIN log : log[j] = name => j <= i
  ELSE 0

\* stealth and the route are on the page when page.goto starts
InstalledBeforeNavigation ==
  \A j \in DOMAIN log :
     log[j] = "goto" =>
        /\ stealth_applied /\ route_installed
        /\ 0 < LastStep("apply_stealth_async") /\ LastStep("apply_stealth_async") < j
        /\ 0 < LastStep("route") /\ LastStep("route") < j

\* the HTML that the selection reads was serialized after page.goto returned
\* at DOM-ready and after wait_for_timeout(2000)
SerializedAfterSettle ==
  /\ nav = "ok"
  /\ LastStep("goto") < LastStep("wait_for_timeout")
  /\ LastStep("wait_for_timeout") < LastStep("content")
  /\ LastStep("content after timeout") = 0

\* the HTML that the selection reads was serialized in the handler of the
\* navigation timeout, with no wait
SerializedAfterTimeout ==
  /\ nav = "timeout"
  /\ LastStep("goto") < LastStep("content after timeout")
  /\ LastStep("wait_for_timeout") = 0
  /\ LastStep("content") = 0

ext_stages ==
  <<"blog header", "reporter info", "wire tags", "tts player", "photo video meta",
    "broadcast script", "video production", "contact info", "ui elements",
    "special patterns", "line filter", "post-processing", "final cleanup">>

pw_stages ==
  <<"preprocessing", "blog header", "special patterns", "photo video credit",
    "broadcast markers", "media meta", "video contact info", "other noise",
    "end point", "line filter", "post-processing", "final reporter info">>

Stages(i) == IF i = "extractor" THEN ext_stages ELSE pw_stages

\* what a stage of news_extractor makes of the text
ext_stage(name, t) ==
  CASE name = "blog header"      -> RemoveBlogHeader(t)
    [] name = "reporter info"    -> RemoveByline(t)
    [] name = "special patterns" -> RemoveHangulLines(t, TRUE)
    [] name = "line filter"      ->
         JoinLines(SelectSeq(StripLines(SplitLines(t)), ExtKeepLine))
    [] name = "post-processing"  ->
         Strip(CollapseSpaces(CollapseNewlines(RemoveUrls(t), 3)))
    [] name = "final cleanup"    -> Strip(t)
    [] OTHER                     -> t

\* what a stage of news_playwright makes of the text
pw_stage(name, t) ==
  CASE name = "blog header"         -> RemoveBlogHeader(t)
    [] name = "special patterns"    -> RemoveBlankRuns(RemoveByline(t), TRUE)
    [] name = "other noise"         -> JoinLines(StripLines(SplitLines(t)))
    [] name = "end point"           -> JoinLines(CutAtEndPattern(SplitLines(t), 1))
    [] name = "line filter"         -> JoinLines(SelectSeq(SplitLines(t), PwKeepLine))
    [] name = "post-processing"     ->
         Strip(CollapseSpaces(CollapseNewlines(RemoveUrls(t), 2)))
    [] name = "final reporter info" -> Strip(t)
    [] OTHER                        -> t

StageOp(i, name, t) == IF i = "extractor" THEN ext_stage(name, t) ELSE pw_stage(name, t)

InitStages ==
  /\ pc = "stage entry"
  /\ impl \in {"extractor", "playwright"}
  /\ raw \in StageTexts \cup NonStrings
  /\ pass1 = NotRun /\ pass2 = NotRun
  /\ log = <<>>
  /\ endpoint = "none" /\ body_valid = TRUE /\ reachable = TRUE
  /\ download_state = "none" /\ article_text = NotRun
  /\ content = NotRun /\ cleaned = NotRun
  /\ result = NoResult /\ exc = "none"
  /\ driver = "none" /\ browser = "none" /\ context = "none" /\ page = "none"
  /\ stealth_applied = FALSE /\ route_installed = FALSE
  /\ nav = "none" /\ html = NoHtml
  /\ response = NoResponse /\ first = NoFirst
  /\ calls = NoCalls /\ heap = EmptyHeap

stage_vars ==
  <<request_vars, static_vars, local_vars, result, exc, browser_vars,
    response, first, impl, raw, pass2, conc_vars>>

\* clean_entry that strips the input before it looks at its length
clean_entry_strip_first ==
  /\ pc = "stage entry"
  /\ pass1' = IF raw \in NonStrings THEN raw ELSE Strip(raw)
  /\ pc' = IF raw = <<>> \/ raw \in NonStrings \/ TextLen(pass1') < MinCleanLen
           THEN "stages done" ELSE "stage"
  /\ UNCHANGED log
  /\ UNCHANGED stage_vars

\* if not raw_content / not isinstance(raw_content, str) / len(raw_content) < 50:
\* return raw_content
clean_entry ==
  /\ pc = "stage entry"
  /\ pass1' = raw
  /\ pc' = IF raw = <<>> \/ raw \in NonStrings \/ TextLen(raw) < MinCleanLen
           THEN "stages done" ELSE "stage"
  /\ UNCHANGED log
  /\ UNCHANGED stage_vars

\* every stage is run again until the text stops changing
clean_stage_to_fixed_point ==
  /\ pc = "stage"
  /\ LET name == Stages(impl)[(Len(log) % Len(Stages(impl))) + 1]
         last == (Len(log) + 1) % Len(Stages(impl)) = 0
     IN /\ pass1' = StageOp(impl, name, pass1)
        /\ Step(name)
        /\ pc' = IF last /\ Len(log) + 1 >= 2 * Len(Stages(impl)) THEN "stages done" ELSE "stage"
  /\ UNCHANGED stage_vars

\* the next stage of the function, on the text that the previous one left
clean_stage ==
  /\ pc = "stage"
  /\ LET name == Stages(impl)[Len(log) + 1]
     IN /\ pass1' = StageOp(impl, name, pass1)
        /\ Step(name)
        /\ pc' = IF Len(log) + 1 = Len(Stages(impl)) THEN "stages done" ELSE "stage"
  /\ UNCHANGED stage_vars

NextStages == clean_entry \/ clean_stage

SpecStages == InitStages /\ [][NextStages]_vars

\* C21: the blog-header stage changes the text only when a blog marker is
\* present and the first share marker starts at an index above 0 and below
\* 30% of the length; it then removes exactly the prefix up to and including
\* that share marker and the whitespace after it; otherwise (no blog marker,
\* no share marker, share marker at index 0 or at 30% or beyond) it leaves
\* the text unchanged.
C21_BlogHeaderRemoval ==
  [][ LET t      == pass1
          \* the place, in lexemes, of the first share marker, 0 without one
          pos    == IF \E k \in DOMAIN t : t[k] = "SHARE"
                    THEN CHOOSE k \in DOMAIN t :
                           t[k] = "SHARE" /\ \A j \in 1..(k - 1) : t[j] # "SHARE"
                    ELSE 0
          \* the number of characters before it
          index  == TextLen(SubSeq(t, 1, pos - 1))
          header == /\ \E i \in DOMAIN t : t[i] = "BLOG"
                    /\ pos > 0
                    /\ index > 0
                    /\ 10 * index < 3 * TextLen(t)
      IN (log' # log /\ log'[Len(log')] = "blog header") =>
            IF header
            THEN pass1' = LStrip(SubSeq(t, pos + 1, Len(t)))
            ELSE pass1' = pass1
    ]_vars

\* a blog page whose header was removed, and nothing else
C21_Witness ==
  /\ log = <<"blog header">>
  /\ raw = <<"BLOG", "SP", "SHARE", "SP", "F50">>
  /\ pass1 = <<"F50">>

\* the categories of section 4.7, in the order it gives them: 1 structural
\* (blog header), 2 byline and credit, 3 copyright notice, 4 promotional, UI
\* and footer, 5 line filter, 6 whitespace and markdown, 7 trailing byline;
\* a stage has the category of the rules under its heading in the code
StageCategory(i, name) ==
  IF i = "extractor"
  THEN CASE name = "blog header"      -> 1    \* STEP 1
         [] name = "reporter info"    -> 2    \* STEP 2
         [] name = "wire tags"        -> 2    \* STEP 3
         [] name = "tts player"       -> 4    \* STEP 4, the audio player
         [] name = "photo video meta" -> 2    \* STEP 5
         [] name = "broadcast script" -> 2    \* STEP 6
         [] name = "video production" -> 2    \* STEP 7
         [] name = "contact info"     -> 4    \* STEP 8
         [] name = "ui elements"      -> 4    \* STEP 9
         [] name = "special patterns" -> 3    \* STEP 10, the copyright notices
         [] name = "line filter"      -> 5    \* STEP 11
         [] name = "post-processing"  -> 6    \* STEP 12
         [] name = "final cleanup"    -> 7    \* STEP 13
  ELSE CASE name = "preprocessing"       -> 4   \* stage 1, ad and UI patterns
         [] name = "blog header"         -> 1   \* stage 2
         [] name = "special patterns"    -> 2   \* stage 3, reporter patterns
         [] name = "photo video credit"  -> 2   \* stage 4
         [] name = "broadcast markers"   -> 2   \* stage 5
         [] name = "media meta"          -> 2   \* stage 6
         [] name = "video contact info"  -> 2   \* stage 7
         [] name = "other noise"         -> 4   \* stage 8
         [] name = "end point"           -> 4   \* stage 9, the page footer
         [] name = "line filter"         -> 5   \* stage 10
         [] name = "post-processing"     -> 6   \* stage 11
         [] name = "final reporter info" -> 7   \* stage 12

\* C22 as stated: the stages run exactly once each and in the order
\* structural, byline/credit, copyright, promotional/UI/footer, line filter,
\* whitespace/markdown, trailing byline: a stage of a later category never
\* runs before a stage of an earlier one.
C22_StagesInStatedOrder ==
  /\ \A j, k \in DOMAIN log : log[j] = log[k] => j = k
  /\ \A j, k \in DOMAIN log :
       j < k => StageCategory(impl, log[j]) <= StageCategory(impl, log[k])

\* C22 (amended): the stages run exactly once each, in the order of the code
\* of the implementation, every stage on the text the previous one left, and
\* the text after the last stage is the result: no stage is run again.
C22_StagesOnceInCodeOrder ==
  /\ \A j, k \in DOMAIN log : log[j] = log[k] => j = k
  /\ Len(log) <= Len(Stages(impl))
  /\ log = SubSeq(Stages(impl), 1, Len(log))
  /\ (pc = "stages done" /\ log # <<>>) =>
        /\ log = Stages(impl)
        /\ pass1 = clean_news_body(impl, raw)

\* a text that one pass of news_playwright changed and a second would change again
C22_Witness ==
  /\ pc = "stages done" /\ impl = "playwright"
  /\ log = pw_stages
  /\ pass1 # raw
  /\ clean_news_body(impl, pass1) # pass1

\* C23: the two implementations of clean_news_body return the same output for
\* every input text: what one returned is what the other returns for it.
C23_ImplementationsAgree ==
  pc = "stages done" =>
     pass1 = clean_news_body(IF impl = "extractor" THEN "playwright" ELSE "extractor", raw)

\* C24: the line filter of news_playwright drops every line of 2 to 4 Hangul
\* syllables as a reporter name, unless the line is one of the listed common
\* words, which it keeps.
C24_ReporterNameLines ==
  [][ LET before == SplitLines(pass1)
          after  == SplitLines(pass1')
          \* a line of 2 to 4 Hangul syllables and nothing else, below 50 characters
          short_hangul(line) ==
            /\ Len(line) = 1 /\ line[1] \in HangulOnly
            /\ TextLen(line) >= 2 /\ TextLen(line) <= 4
            /\ TextLen(line) < PwNameLineLen
          \* the number of lines that are the common word
          common(lines) == Cardinality({i \in DOMAIN lines : lines[i] = <<"HOWEVER">>})
      IN (impl = "playwright" /\ log' # log /\ log'[Len(log')] = "line filter") =>
            /\ \A i \in DOMAIN after : short_hangul(after[i]) => after[i] = <<"HOWEVER">>
            /\ common(after) = common(before)
            /\ common(before) > 0 => pass1' # <<>>
    ]_vars

\* a name line was dropped and a common word kept
C24_Witness ==
  /\ impl = "playwright"
  /\ log # <<>> /\ log[Len(log)] = "line filter"
  /\ raw = <<"F50", "NL", "NAME", "NL", "HOWEVER">>
  /\ pass1 = <<"F50", "NL", "HOWEVER">>

\* C25: in every result dictionary returned by extract_article, by
\* extract_with_playwright and by the endpoint and exception handlers,
\* success or failure, content_length equals len(content).
C25_ContentLengthIsLen ==
  /\ result # NoResult => result.content_length = TextLen(result.content)
  /\ response # NoResponse => response.body.content_length = TextLen(response.body.content)

\* a failed answer that carries the text that was too short, with its length
C25_Witness ==
  /\ pc = "responded"
  /\ ~response.body.success
  /\ response.body.content # <<>>
  /\ response.body.content_length = TextLen(response.body.content)
  /\ response.body.content_length > 0
  /\ response.body.extraction_method = "playwright-stealth"

C27_SufficientBodyKept ==
  LET candidates ==
        ({"article", "main"} \cup {ContainerSelectors[i] : i \in DOMAIN ContainerSelectors})
          \cap html.has
  IN (/\ pc = "selected"
      /\ \E c \in candidates : TextLen(BodyOf(html, c)) >= MinContentLen)
        => TextLen(content) >= MinContentLen

\* C28: the end-marker truncation of news_playwright cuts the list of lines at
\* most once, at the first line that matches the earliest pattern of
\* end_patterns that matches any line, and drops that line and all lines
\* after it; no line that matches an end pattern is left before the cut: the
\* cut is at the earliest line that matches any end pattern.
C28_CutAtEarliestEndLine ==
  [][ LET before      == SplitLines(pass1)
          least(S)    == CHOOSE i \in S : \A j \in S : i <= j
          \* the lines that match the pattern number k
          hits(k)     == {i \in DOMAIN before : before[i] = <<end_patterns[k]>>}
          matching    == {k \in DOMAIN end_patterns : hits(k) # {}}
          \* the lines that match any pattern
          ends        == UNION {hits(k) : k \in DOMAIN end_patterns}
          upto(i)     == JoinLines(SubSeq(before, 1, i - 1))
      IN (impl = "playwright" /\ log' # log /\ log'[Len(log')] = "end point") =>
            /\ IF matching = {} THEN pass1' = JoinLines(before)
               ELSE pass1' = upto(least(hits(least(matching))))
            /\ IF ends = {} THEN pass1' = JoinLines(before)
               ELSE pass1' = upto(least(ends))
    ]_vars

\* C29: clean_news_body returns its input unchanged when the input is empty,
\* not a string or shorter than 50 characters: no stage runs on it and it is
\* not stripped, in both implementations.
C29_ShortInputUnchanged ==
  (/\ pc \in {"stage", "stages done"}
   /\ (raw = <<>> \/ raw \in NonStrings \/ TextLen(raw) < MinCleanLen)) =>
     /\ pc = "stages done"
     /\ log = <<>>
     /\ pass1 = raw
     /\ clean_news_body(impl, raw) = raw

\* a short text with blanks around it, returned with its blanks
C29_Witness ==
  /\ pc = "stages done"
  /\ raw = <<"SP", "BLOG", "SP", "SHARE", "SP">>
  /\ pass1 = raw
  /\ log = <<>>

\* C30: normalization never lengthens a text: the text that the stages of
\* clean_news_body have made of the input, after any number of them, is no
\* longer than the input, and so is the text that the function returns.
C30_NeverLonger ==
  (pass1 # NotRun /\ raw \notin NonStrings) =>
     /\ TextLen(pass1) <= TextLen(raw)
     /\ TextLen(clean_news_body(impl, raw)) <= TextLen(raw)

\* a text of three lines that came out shorter
C30_Witness ==
  /\ pc = "stages done"
  /\ raw = <<"F50", "NL", "URL", "NL", "F50">>
  /\ log = Stages(impl)
  /\ TextLen(pass1) < TextLen(raw)
  /\ TextLen(pass1) > MinContentLen

====
